---- MODULE Spec2Model ----
(***************************************************************************)
(* Section-table decoding of xmas-elf (src/src/sections.rs).               *)
(*                                                                         *)
(* Machine integers wider than 31 bits are kept at their full width as     *)
(* little-endian byte sequences (a u32 is 4 bytes, a u64 8 bytes, a usize  *)
(* 4 or 8 bytes according to the build), so that wrap-around, truncation   *)
(* by `as`, shifts and masks are computed exactly as the code computes     *)
(* them.  A panic (assert!, panic!, unimplemented!, unreachable!, a failed *)
(* slice index) aborts the run: no operation follows it.                   *)
(***************************************************************************)
EXTENDS Integers, Sequences, FiniteSets, TLC

VARIABLES
  file,        \* the ElfFile: class, input length, header summary, string table
  build,       \* the build: width of usize, overflow checks on or off
  next_index,  \* SectionIter.next_index
  n_yielded,   \* number of Some(..) results SectionIter::next has produced
  hdr,         \* the section header handle last decoded, or NoHdr
  arg,         \* the input of the pure function under study
  result,      \* the outcome of the last operation
  aborted      \* TRUE once an operation has panicked

vars == <<file, build, next_index, n_yielded, hdr, arg, result, aborted>>

---------------------------------------------------------------------------
(* Fixed-width words: little-endian sequences of bytes.                    *)

RECURSIVE NatBytes(_, _)
\* The n-byte word holding the natural v (mod 2^(8n)).
NatBytes(v, n) ==
  IF n = 0 THEN <<>> ELSE <<v % 256>> \o NatBytes(v \div 256, n - 1)

U32(v) == NatBytes(v, 4)
U64(v) == NatBytes(v, 8)

\* A word whose value is below 2^31, and that value.
Small(w) == /\ \A i \in 1..Len(w) : i > 4 => w[i] = 0
            /\ (Len(w) >= 4 => w[4] < 128)
RECURSIVE ToNat(_)
ToNat(w) == IF w = <<>> THEN 0
            ELSE IF \A i \in 1..Len(w) : w[i] = 0 THEN 0
            ELSE Head(w) + 256 * ToNat(Tail(w))

RECURSIVE WLt(_, _)
\* Unsigned a < b for words of one width.
WLt(a, b) ==
  IF a = <<>> THEN FALSE
  ELSE LET n == Len(a) IN
       IF a[n] # b[n] THEN a[n] < b[n]
       ELSE WLt(SubSeq(a, 1, n - 1), SubSeq(b, 1, n - 1))
WLe(a, b) == a = b \/ WLt(a, b)

RECURSIVE AddC(_, _, _)
\* a + b + c for words of one width n: n sum bytes, then the carry out.
AddC(a, b, c) ==
  IF a = <<>> THEN <<c>>
  ELSE LET s == Head(a) + Head(b) + c
       IN <<s % 256>> \o AddC(Tail(a), Tail(b), s \div 256)
WrapAdd(a, b) == SubSeq(AddC(a, b, 0), 1, Len(a))
AddOverflows(a, b) == AddC(a, b, 0)[Len(a) + 1] = 1

\* `w as uN` to a narrower or equal width (truncation) or a wider one
\* (zero extension), n bytes.
Cast(w, n) == [i \in 1..n |-> IF i <= Len(w) THEN w[i] ELSE 0]

\* w >> 8k and w << 8k at w's width.
ShrBytes(w, k) == [i \in 1..Len(w) |-> IF i + k <= Len(w) THEN w[i + k] ELSE 0]
ShlBytes(w, k) == [i \in 1..Len(w) |-> IF i > k THEN w[i - k] ELSE 0]

RECURSIVE BitOr(_, _)
RECURSIVE BitAnd(_, _)
BitOr(x, y) ==
  IF x = 0 THEN y ELSE IF y = 0 THEN x
  ELSE (IF x % 2 = 1 \/ y % 2 = 1 THEN 1 ELSE 0) + 2 * BitOr(x \div 2, y \div 2)
BitAnd(x, y) ==
  IF x = 0 \/ y = 0 THEN 0
  ELSE (IF x % 2 = 1 /\ y % 2 = 1 THEN 1 ELSE 0) + 2 * BitAnd(x \div 2, y \div 2)
WOr(a, b) == [i \in 1..Len(a) |-> BitOr(a[i], b[i])]
WAnd(a, b) == [i \in 1..Len(a) |-> BitAnd(a[i], b[i])]

---------------------------------------------------------------------------
(* Outcomes.                                                               *)

Panic(op, msg) == [op |-> op, status |-> "panic", msg |-> msg]
NoResult == [op |-> "none", status |-> "none"]
NoHdr == [tag |-> "none"]
NoArg == [fn |-> "none"]

---------------------------------------------------------------------------
(* Section Type Classifier and compression type classifier.                *)

\* Distinguished ShType values (0x60000000 .. 0xffffffff), little-endian.
SHT_LOOS   == <<0, 0, 0, 96>>
SHT_HIOS   == <<255, 255, 255, 111>>
SHT_LOPROC == <<0, 0, 0, 112>>
SHT_HIPROC == <<255, 255, 255, 127>>
SHT_LOUSER == <<0, 0, 0, 128>>
SHT_HIUSER == <<255, 255, 255, 255>>

\* Distinguished CompressionType values.
COMPRESS_LOOS   == <<0, 0, 0, 96>>
COMPRESS_HIOS   == <<255, 255, 255, 111>>
COMPRESS_LOPROC == <<0, 0, 0, 112>>
COMPRESS_HIPROC == <<255, 255, 255, 127>>

\* A classified type: a closed kind carries no code, an open range carries
\* the raw code.
Kind(op, k) == [op |-> op, status |-> "ok", kind |-> k, raw |-> <<>>]
Open(op, k, st) == [op |-> op, status |-> "ok", kind |-> k, raw |-> st]

\* The classifier with the gap at 12 and 13 closed up, as a table of
\* consecutive codes would have it.
as_sh_type_nogap(st) ==
  LET op == "as_sh_type" IN
  CASE st = U32(0) -> Kind(op, "Null")
    [] st = U32(1) -> Kind(op, "ProgBits")
    [] st = U32(2) -> Kind(op, "SymTab")
    [] st = U32(3) -> Kind(op, "StrTab")
    [] st = U32(4) -> Kind(op, "Rela")
    [] st = U32(5) -> Kind(op, "Hash")
    [] st = U32(6) -> Kind(op, "Dynamic")
    [] st = U32(7) -> Kind(op, "Note")
    [] st = U32(8) -> Kind(op, "NoBits")
    [] st = U32(9) -> Kind(op, "Rel")
    [] st = U32(10) -> Kind(op, "ShLib")
    [] st = U32(11) -> Kind(op, "DynSym")
    [] st = U32(12) -> Kind(op, "InitArray")
    [] st = U32(13) -> Kind(op, "FiniArray")
    [] st = U32(14) -> Kind(op, "PreInitArray")
    [] st = U32(15) -> Kind(op, "Group")
    [] st = U32(16) -> Kind(op, "SymTabShIndex")
    [] WLe(SHT_LOOS, st) /\ WLe(st, SHT_HIOS) -> Open(op, "OsSpecific", st)
    [] WLe(SHT_LOPROC, st) /\ WLe(st, SHT_HIPROC) -> Open(op, "ProcessorSpecific", st)
    [] WLe(SHT_LOUSER, st) /\ WLe(st, SHT_HIUSER) -> Open(op, "User", st)
    [] OTHER -> Panic(op, "Invalid sh type")

\* ShType_::as_sh_type: the match arms in source order.
as_sh_type(st) ==
  LET op == "as_sh_type" IN
  CASE st = U32(0) -> Kind(op, "Null")
    [] st = U32(1) -> Kind(op, "ProgBits")
    [] st = U32(2) -> Kind(op, "SymTab")
    [] st = U32(3) -> Kind(op, "StrTab")
    [] st = U32(4) -> Kind(op, "Rela")
    [] st = U32(5) -> Kind(op, "Hash")
    [] st = U32(6) -> Kind(op, "Dynamic")
    [] st = U32(7) -> Kind(op, "Note")
    [] st = U32(8) -> Kind(op, "NoBits")
    [] st = U32(9) -> Kind(op, "Rel")
    [] st = U32(10) -> Kind(op, "ShLib")
    [] st = U32(11) -> Kind(op, "DynSym")
    [] st = U32(14) -> Kind(op, "InitArray")
    [] st = U32(15) -> Kind(op, "FiniArray")
    [] st = U32(16) -> Kind(op, "PreInitArray")
    [] st = U32(17) -> Kind(op, "Group")
    [] st = U32(18) -> Kind(op, "SymTabShIndex")
    [] WLe(SHT_LOOS, st) /\ WLe(st, SHT_HIOS) -> Open(op, "OsSpecific", st)
    [] WLe(SHT_LOPROC, st) /\ WLe(st, SHT_HIPROC) -> Open(op, "ProcessorSpecific", st)
    [] WLe(SHT_LOUSER, st) /\ WLe(st, SHT_HIUSER) -> Open(op, "User", st)
    [] OTHER -> Panic(op, "Invalid sh type")

\* CompressionType_::as_compression_type.
as_compression_type(ct) ==
  LET op == "as_compression_type" IN
  CASE ct = U32(1) -> Kind(op, "Zlib")
    [] WLe(COMPRESS_LOOS, ct) /\ WLe(ct, COMPRESS_HIOS) -> Open(op, "OsSpecific", ct)
    [] WLe(COMPRESS_LOPROC, ct) /\ WLe(ct, COMPRESS_HIPROC) ->
         Open(op, "ProcessorSpecific", ct)
    [] OTHER -> Panic(op, "Invalid compression type")

\* Raw 32-bit codes tried: every low byte around the closed table, the two
\* middle bytes all clear or all set, the high byte at each range boundary.
LowBytes == 0..20 \cup {255}
HighBytes == {0, 95, 96, 111, 112, 127, 128, 255}
TypeCodes == {<<b1, m, m, b4>> : b1 \in LowBytes, m \in {0, 255}, b4 \in HighBytes}

InitType ==
  /\ arg \in [fn : {"as_sh_type", "as_compression_type"}, code : TypeCodes]
  /\ file = [class |-> "none"]
  /\ build = [usize_bytes |-> 8, overflow_checks |-> TRUE]
  /\ next_index = 0
  /\ n_yielded = 0
  /\ hdr = NoHdr
  /\ result = NoResult
  /\ aborted = FALSE

\* ShType_(code).as_sh_type()
AsShType ==
  /\ ~aborted
  /\ arg.fn = "as_sh_type"
  /\ result = NoResult
  /\ result' = as_sh_type(arg.code)
  /\ aborted' = (result'.status = "panic")
  /\ UNCHANGED <<file, build, next_index, n_yielded, hdr, arg>>

\* CompressionType_(code).as_compression_type()
AsCompressionType ==
  /\ ~aborted
  /\ arg.fn = "as_compression_type"
  /\ result = NoResult
  /\ result' = as_compression_type(arg.code)
  /\ aborted' = (result'.status = "panic")
  /\ UNCHANGED <<file, build, next_index, n_yielded, hdr, arg>>

NextType == AsShType \/ AsCompressionType
SpecType == InitType /\ [][NextType]_vars

\* The table of section 4.3 of the specification, by code.
TableKinds ==
  <<"Null", "ProgBits", "SymTab", "StrTab", "Rela", "Hash", "Dynamic", "Note",
    "NoBits", "Rel", "ShLib", "DynSym", "", "", "InitArray", "FiniArray",
    "PreInitArray", "Group", "SymTabShIndex">>
\* The leading hexadecimal digit of a 32-bit code.
TopDigit(c) == c[4] \div 16
InTable(c) == Small(c) /\ ToNat(c) <= 18 /\ TableKinds[ToNat(c) + 1] # ""

\* C3: as_sh_type classifies a raw code iff it is one of 0..11, 14..18 or
\* lies in [0x60000000, 0xffffffff], and then yields the kind of the table
\* (the open ranges carrying the unchanged code); every other code, 12 and 13
\* included, fails with "Invalid sh type".  as_compression_type classifies
\* only 1 (Zlib) and the OS and processor ranges; every other code fails.
Thm_C3 ==
  /\ result.op = "as_sh_type" =>
       LET c == arg.code IN
       IF InTable(c)
         THEN result = [op |-> "as_sh_type", status |-> "ok",
                        kind |-> TableKinds[ToNat(c) + 1], raw |-> <<>>]
       ELSE IF TopDigit(c) >= 6
         THEN /\ result.status = "ok"
              /\ result.raw = c
              /\ result.kind = (IF TopDigit(c) = 6 THEN "OsSpecific"
                                ELSE IF TopDigit(c) = 7 THEN "ProcessorSpecific"
                                ELSE "User")
       ELSE result.status = "panic" /\ result.msg = "Invalid sh type"
  /\ result.op = "as_compression_type" =>
       LET c == arg.code IN
       IF c = <<1, 0, 0, 0>>
         THEN result.status = "ok" /\ result.kind = "Zlib"
       ELSE IF TopDigit(c) \in {6, 7}
         THEN /\ result.status = "ok"
              /\ result.raw = c
              /\ result.kind = (IF TopDigit(c) = 6 THEN "OsSpecific"
                                ELSE "ProcessorSpecific")
       ELSE result.status = "panic" /\ result.msg = "Invalid compression type"

\* The undefined gap code 13 has been rejected.
Wit_C3 ==
  /\ result.op = "as_sh_type"
  /\ arg.code = <<13, 0, 0, 0>>
  /\ result.status = "panic"

---------------------------------------------------------------------------
(* Section Header Decoder and Section Table Iterator.                      *)

\* Distinguished section index: the first reserved index (0xff00).
SHN_LORESERVE == 65280
\* The largest u16.
U16_MAX == 65535

\* Bytes of the width parameter P of a file class (P32 = u32, P64 = u64).
PBytes(class) == IF class = "ThirtyTwo" THEN 4 ELSE 8
\* size_of::<SectionHeader_<P>>(): four u32 fields and six P fields.
HeaderSize(class) == 4 * 4 + 6 * PBytes(class)

\* A panic of operation op after `indexed` index operations on the input.
PanicAt(op, msg, indexed) ==
  [op |-> op, status |-> "panic", msg |-> msg, indexed |-> indexed]

\* a + b in Rust at the width of a and b: a panic with overflow checks on,
\* wrap-around with them off.
RustAdd(b, x, y) ==
  IF AddOverflows(x, y) /\ b.overflow_checks
    THEN [ok |-> FALSE, val |-> <<>>]
    ELSE [ok |-> TRUE, val |-> WrapAdd(x, y)]

\* &input[start..end] for usize words start and end and an input of len
\* bytes: the range as naturals, or a failed bounds check.
SliceIndex(len, start, end) ==
  IF Small(end) /\ ToNat(end) <= len /\ WLe(start, end)
    THEN [ok |-> TRUE, lo |-> ToNat(start), hi |-> ToNat(end)]
    ELSE [ok |-> FALSE, lo |-> 0, hi |-> 0]

\* zero::read::<T>(slice): an overlay of a record of `size` bytes on a slice
\* of n bytes, asserting that the record fits.
read(size, n) == size <= n

\* The decoder with the reserved-index assertion off by one (<=).
parse_section_header_le(f, b, index) ==
  IF ~(index <= SHN_LORESERVE)
    THEN PanicAt("parse", "Attempt to get section for a reserved index", 0)
    ELSE [op |-> "parse", status |-> "ok", tag |-> "Sh32", index |-> index,
          lo |-> 0, hi |-> HeaderSize("ThirtyTwo"), indexed |-> 1]

\* The element of a singleton set: binds a subexpression's value once.
The(S) == CHOOSE x \in S : TRUE

\* parse_section_header, the match on the file class: the slice
\* input[start..end] and the overlay read of the record.
parse_read(f, index, sl) ==
  IF f.class \notin {"ThirtyTwo", "SixtyFour"}
    THEN PanicAt("parse", "unreachable", 0)
  ELSE IF ~sl.ok
    THEN PanicAt("parse", "slice index out of range", 1)
  ELSE IF ~read(HeaderSize(f.class), sl.hi - sl.lo)
    THEN PanicAt("parse", "read: record larger than slice", 1)
  ELSE [op |-> "parse", status |-> "ok",
        tag |-> (IF f.class = "ThirtyTwo" THEN "Sh32" ELSE "Sh64"),
        index |-> index, lo |-> sl.lo, hi |-> sl.lo + HeaderSize(f.class),
        indexed |-> 1]

\* parse_section_header, from the usize start:
\* end = start + sh_entry_size as usize.
parse_window(f, b, index, start) ==
  The({ IF ~esum.ok
          THEN PanicAt("parse", "attempt to add with overflow", 0)
          ELSE The({ parse_read(f, index, sl) :
                     sl \in {SliceIndex(f.len, start, esum.val)} }) :
        esum \in {RustAdd(b, start, NatBytes(f.sh_entry_size, b.usize_bytes))} })

\* parse_section_header(input, header, index)
parse_section_header(f, b, index) ==
  IF ~(index < SHN_LORESERVE)
    THEN PanicAt("parse", "Attempt to get section for a reserved index", 0)
  ELSE
    The({ IF ~sum.ok
            THEN PanicAt("parse", "attempt to add with overflow", 0)
            ELSE parse_window(f, b, index, Cast(sum.val, b.usize_bytes)) :
          sum \in {RustAdd(b, U64(index * f.sh_entry_size), f.sh_offset)} })

\* The builds: usize of 32 or 64 bits, overflow checks on (debug) or off.
Builds == [usize_bytes : {4, 8}, overflow_checks : BOOLEAN]
Classes == {"ThirtyTwo", "SixtyFour"}

\* Length of a buffer that holds the largest table a u16 count can declare.
BigLen == 64 * U16_MAX + 64
\* Length of a short buffer: room for ShortEntries 64-bit entries.
ShortEntries == 2
ShortLen == 64 * ShortEntries
\* Declared section counts tried.
SmallCounts == 0..(ShortEntries + 1)

\* Short tables under every class and build, and the two tables around the
\* reserved threshold under one.
InitIter ==
  /\ \/ /\ \E c \in Classes, n \in SmallCounts, l \in {ShortLen, BigLen} :
             file = [class |-> c, len |-> l, sh_count |-> n, sh_offset |-> U64(0),
                     sh_entry_size |-> HeaderSize(c), strtab |-> <<>>]
        /\ build \in Builds
     \/ /\ \E n \in {SHN_LORESERVE, SHN_LORESERVE + 1} :
             file = [class |-> "SixtyFour", len |-> BigLen, sh_count |-> n,
                     sh_offset |-> U64(0),
                     sh_entry_size |-> HeaderSize("SixtyFour"), strtab |-> <<>>]
        /\ build = [usize_bytes |-> 8, overflow_checks |-> TRUE]
  /\ next_index = 0
  /\ n_yielded = 0
  /\ hdr = NoHdr
  /\ arg = NoArg
  /\ result = NoResult
  /\ aborted = FALSE

\* SectionIter::next with the end test off by one (> for >=).
IterNextGt ==
  /\ ~aborted
  /\ IF next_index > file.sh_count
       THEN /\ result' = [op |-> "next", status |-> "none"]
            /\ UNCHANGED <<next_index, n_yielded, hdr, aborted>>
       ELSE /\ result' = [op |-> "next", status |-> "some",
                          item |-> [tag |-> "Sh32", index |-> next_index]]
            /\ next_index' = next_index + 1
            /\ n_yielded' = n_yielded + 1
            /\ UNCHANGED <<hdr, aborted>>
  /\ UNCHANGED <<file, build, arg>>

\* SectionIter::next
IterNext ==
  /\ ~aborted
  /\ LET count == file.sh_count IN
     IF next_index >= count
       THEN /\ result' = [op |-> "next", status |-> "none"]
            /\ UNCHANGED <<next_index, n_yielded, hdr, aborted>>
       ELSE
         \E r \in {parse_section_header(file, build, next_index)} :
         IF r.status = "panic"
           THEN /\ result' = [r EXCEPT !.op = "next"]
                /\ aborted' = TRUE
                /\ UNCHANGED <<next_index, n_yielded, hdr>>
         ELSE IF next_index + 1 > U16_MAX /\ build.overflow_checks
           THEN /\ result' = PanicAt("next", "attempt to add with overflow", 1)
                /\ aborted' = TRUE
                /\ UNCHANGED <<next_index, n_yielded, hdr>>
         ELSE /\ result' = [op |-> "next", status |-> "some",
                            item |-> [tag |-> r.tag, index |-> r.index,
                                      lo |-> r.lo, hi |-> r.hi]]
              /\ hdr' = result'.item
              /\ next_index' = (next_index + 1) % (U16_MAX + 1)
              /\ n_yielded' = n_yielded + 1
              /\ UNCHANGED aborted
  /\ UNCHANGED <<file, build, arg>>

NextIter == IterNext
SpecIter == InitIter /\ [][NextIter]_vars

\* Entry i of the declared table lies inside the buffer and is large enough
\* for a header record of the file's class (exact arithmetic).
EntryFits(i) ==
  /\ Small(file.sh_offset)
  /\ file.sh_entry_size >= HeaderSize(file.class)
  /\ i * file.sh_entry_size + ToNat(file.sh_offset) + file.sh_entry_size <= file.len
\* The buffer holds all N declared entries.
TableFits == file.sh_count = 0 \/ EntryFits(file.sh_count - 1)

\* C1 (original): for every declared count N, any u16 value, iteration
\* yields exactly the N handles of indices 0..N-1 in ascending order, every
\* later call returns None, next_index never exceeds N, and no call fails
\* (read for a buffer that holds the N declared entries).
Orig_C1 ==
  /\ next_index <= file.sh_count
  /\ (result.op = "next" /\ TableFits) =>
       /\ result.status # "panic"
       /\ result.status = "some" => result.item.index = n_yielded - 1
       /\ result.status = "none" => n_yielded = file.sh_count

\* C1 (amended): next_index never exceeds N; the k-th Some carries the handle
\* decoded for index k-1, below N and below the reserved threshold 0xff00;
\* None is returned only after exactly N handles; a call fails only on the
\* reserved index 0xff00 (so only when N > 0xff00, after the 0xff00 handles
\* of indices 0..0xfeff) or on an entry that does not fit the buffer.  Hence
\* for N <= 0xff00 and a buffer holding the table no call fails.
Thm_C1 ==
  /\ next_index <= file.sh_count
  /\ next_index = n_yielded
  /\ result.op = "next" =>
       /\ result.status \in {"some", "none", "panic"}
       /\ result.status = "some" =>
            /\ result.item.index = n_yielded - 1
            /\ result.item.index < file.sh_count
            /\ result.item.index < SHN_LORESERVE
            /\ result.item.tag = (IF file.class = "ThirtyTwo" THEN "Sh32" ELSE "Sh64")
            /\ EntryFits(result.item.index)
            /\ result.item.lo = result.item.index * file.sh_entry_size
                                  + ToNat(file.sh_offset)
       /\ result.status = "none" => n_yielded = file.sh_count
       /\ result.status = "panic" =>
            /\ next_index < file.sh_count
            /\ IF result.msg = "Attempt to get section for a reserved index"
                 THEN next_index = SHN_LORESERVE /\ file.sh_count > SHN_LORESERVE
                 ELSE ~EntryFits(next_index)

\* A table of exactly 0xff00 entries has been iterated to its end.
Wit_C1 ==
  /\ result.op = "next"
  /\ result.status = "none"
  /\ file.sh_count = SHN_LORESERVE
  /\ n_yielded = SHN_LORESERVE

---------------------------------------------------------------------------
(* Section Header View: get_type, get_name, raw_data.                      *)

\* SectionHeader::get_type: the classification of the header's raw code.
get_type(ty) == as_sh_type(ty)

\* ElfFile::get_string(index): the bytes from offset index of the string
\* table up to the next NUL; a panic when the offset is outside the table or
\* no NUL follows.
get_string(strtab, name) ==
  IF name > Len(strtab)
    THEN [ok |-> FALSE, val |-> <<>>, msg |-> "slice index out of range"]
  ELSE IF \A j \in (name + 1)..Len(strtab) : strtab[j] # 0
    THEN [ok |-> FALSE, val |-> <<>>, msg |-> "No null byte in input"]
  ELSE LET z == CHOOSE j \in (name + 1)..Len(strtab) :
                  /\ strtab[j] = 0
                  /\ \A k \in (name + 1)..(j - 1) : strtab[k] # 0
       IN [ok |-> TRUE, val |-> SubSeq(strtab, name + 1, z - 1), msg |-> ""]

\* get_name without the Null test.
get_name_unchecked(f, ty, name) ==
  The({ IF t.status = "panic" THEN [t EXCEPT !.op = "get_name"]
        ELSE The({ IF g.ok
                     THEN [op |-> "get_name", status |-> "ok", val |-> g.val]
                     ELSE Panic("get_name", g.msg) :
                   g \in {get_string(f.strtab, name)} }) :
        t \in {get_type(ty)} })

\* SectionHeader::get_name(elf_file)
get_name(f, ty, name) ==
  The({ IF t.status = "panic" THEN [t EXCEPT !.op = "get_name"]
        ELSE IF t.kind = "Null"
          THEN [op |-> "get_name", status |-> "err",
                msg |-> "Attempt to get name of null section"]
        ELSE The({ IF g.ok
                     THEN [op |-> "get_name", status |-> "ok", val |-> g.val]
                     ELSE Panic("get_name", g.msg) :
                   g \in {get_string(f.strtab, name)} }) :
        t \in {get_type(ty)} })

\* SectionHeader::raw_data(elf_file):
\* &input[offset as usize .. (offset + size) as usize], after the assertion
\* that the type is not Null.
raw_data(f, b, ty, offset, size) ==
  The({ IF t.status = "panic" THEN PanicAt("raw_data", t.msg, 0)
        ELSE IF ~(t.kind # "Null")
          THEN PanicAt("raw_data",
                       "assertion failed: self.get_type() != ShType::Null", 0)
        ELSE
          The({ IF ~sum.ok
                  THEN PanicAt("raw_data", "attempt to add with overflow", 0)
                  ELSE The({ IF ~sl.ok
                               THEN PanicAt("raw_data", "slice index out of range", 1)
                               ELSE [op |-> "raw_data", status |-> "ok",
                                     lo |-> sl.lo, hi |-> sl.hi, indexed |-> 1] :
                             sl \in {SliceIndex(f.len,
                                                Cast(offset, b.usize_bytes),
                                                Cast(sum.val, b.usize_bytes))} }) :
                sum \in {RustAdd(b, offset, size)} }) :
        t \in {get_type(ty)} })

---------------------------------------------------------------------------
(* Section Data Materializer.                                              *)

\* The element type each array variant of SectionData declares: its record
\* type and the bytes of its width parameter P.
VariantElem(v) ==
  CASE v = "FnArray32" -> [type |-> "word", pbytes |-> 4]
    [] v = "FnArray64" -> [type |-> "word", pbytes |-> 8]
    [] v = "SymbolTable32" -> [type |-> "Entry", pbytes |-> 4]
    [] v = "SymbolTable64" -> [type |-> "Entry", pbytes |-> 8]
    [] v = "DynSymbolTable32" -> [type |-> "DynEntry", pbytes |-> 4]
    [] v = "DynSymbolTable64" -> [type |-> "DynEntry", pbytes |-> 8]
    [] v = "SymTabShIndex" -> [type |-> "word", pbytes |-> 4]
    [] v = "Group" -> [type |-> "word", pbytes |-> 4]
    [] v = "Rela32" -> [type |-> "Rela", pbytes |-> 4]
    [] v = "Rela64" -> [type |-> "Rela", pbytes |-> 8]
    [] v = "Rel32" -> [type |-> "Rel", pbytes |-> 4]
    [] v = "Rel64" -> [type |-> "Rel", pbytes |-> 8]
    [] v = "Dynamic32" -> [type |-> "Dynamic", pbytes |-> 8]
    [] v = "Dynamic64" -> [type |-> "Dynamic", pbytes |-> 4]
    [] OTHER -> [type |-> "u8", pbytes |-> 1]

\* size_of::<Rela<P>>() and size_of::<Rel<P>>(): three and two P fields.
RelaSize(pbytes) == 3 * pbytes
RelSize(pbytes) == 2 * pbytes
\* size_of of a symbol-table entry (Entry32, DynEntry32: 16; Entry64,
\* DynEntry64: 24) and of a dynamic entry (a tag and a value of width P).
SymEntrySize(pbytes) == IF pbytes = 4 THEN 16 ELSE 24
DynamicSize(pbytes) == 2 * pbytes
\* size_of::<NoteHeader>(): three u32 fields.  The hash-table header
\* likewise.
NoteHeaderSize == 3 * 4
HashTableSize == 3 * 4

SizeOf(e) ==
  CASE e.type = "word" -> e.pbytes
    [] e.type = "Rela" -> RelaSize(e.pbytes)
    [] e.type = "Rel" -> RelSize(e.pbytes)
    [] e.type \in {"Entry", "DynEntry"} -> SymEntrySize(e.pbytes)
    [] e.type = "Dynamic" -> DynamicSize(e.pbytes)
    [] OTHER -> 1

NoElem == [type |-> "none", pbytes |-> 0]
Payload(variant, ranges, elem, count) ==
  [op |-> "get_data", status |-> "ok", variant |-> variant, ranges |-> ranges,
   elem |-> elem, count |-> count]

\* zero::read_array::<T>(slice): the slice of n bytes as n / size_of::<T>()
\* records, asserting that n is a multiple of the record size.
read_array(variant, ranges, lo, hi) ==
  LET e == VariantElem(variant) IN
  IF (hi - lo) % SizeOf(e) # 0
    THEN PanicAt("get_data", "read_array: length not a multiple of the record size", 1)
    ELSE Payload(variant, ranges \o <<<<lo, hi>>>>, e, (hi - lo) \div SizeOf(e))

\* array_data! with the two variants exchanged.
array_data_swapped(f, data, data32, data64) ==
  IF data.status = "panic" THEN [data EXCEPT !.op = "get_data"]
  ELSE CASE f.class = "ThirtyTwo" -> read_array(data64, <<>>, data.lo, data.hi)
         [] f.class = "SixtyFour" -> read_array(data32, <<>>, data.lo, data.hi)
         [] OTHER -> PanicAt("get_data", "unreachable", 1)

\* array_data!($data32, $data64) applied to the raw data.
array_data(f, data, data32, data64) ==
  IF data.status = "panic" THEN [data EXCEPT !.op = "get_data"]
  ELSE CASE f.class = "ThirtyTwo" -> read_array(data32, <<>>, data.lo, data.hi)
         [] f.class = "SixtyFour" -> read_array(data64, <<>>, data.lo, data.hi)
         [] OTHER -> PanicAt("get_data", "unreachable", 1)

\* The ShType::Group arm: the flags word at data[0], the indices in data[4..].
group_arm(data) ==
  IF data.status = "panic" THEN [data EXCEPT !.op = "get_data"]
  ELSE IF data.hi - data.lo = 0
    THEN PanicAt("get_data", "index out of bounds", 1)
  ELSE IF data.hi - data.lo < 4
    THEN PanicAt("get_data", "slice index out of range", 1)
  ELSE read_array("Group", <<<<data.lo, data.lo + 4>>>>, data.lo + 4, data.hi)

\* The ShType::Note arm reporting an error value for a 32-bit file.
note_arm_err(f, data) ==
  IF data.status = "panic" THEN [data EXCEPT !.op = "get_data"]
  ELSE CASE f.class = "ThirtyTwo" ->
              [op |-> "get_data", status |-> "err", msg |-> "unsupported note width"]
         [] f.class = "SixtyFour" ->
              IF data.hi - data.lo < 12
                THEN PanicAt("get_data", "slice index out of range", 1)
                ELSE Payload("Note64",
                             <<<<data.lo, data.lo + 12>>, <<data.lo + 12, data.hi>>>>,
                             NoElem, 0)
         [] OTHER -> PanicAt("get_data", "unreachable", 1)

\* The ShType::Note arm: unimplemented!() for a 32-bit file; for a 64-bit
\* file the header on data[0..12] and the rest, data[12..].
note_arm(f, data) ==
  IF data.status = "panic" THEN [data EXCEPT !.op = "get_data"]
  ELSE CASE f.class = "ThirtyTwo" ->
              PanicAt("get_data", "not yet implemented", 1)
         [] f.class = "SixtyFour" ->
              IF data.hi - data.lo < 12
                THEN PanicAt("get_data", "slice index out of range", 1)
              ELSE IF ~read(NoteHeaderSize, 12)
                THEN PanicAt("get_data", "read: record larger than slice", 1)
              ELSE Payload("Note64",
                           <<<<data.lo, data.lo + 12>>, <<data.lo + 12, data.hi>>>>,
                           NoElem, 0)
         [] OTHER -> PanicAt("get_data", "unreachable", 1)

\* The ShType::Hash arm: the table header on data[0..12].
hash_arm(data) ==
  IF data.status = "panic" THEN [data EXCEPT !.op = "get_data"]
  ELSE IF data.hi - data.lo < 12
    THEN PanicAt("get_data", "slice index out of range", 1)
  ELSE IF ~read(HashTableSize, 12)
    THEN PanicAt("get_data", "read: record larger than slice", 1)
  ELSE Payload("HashTable", <<<<data.lo, data.lo + 12>>>>, NoElem, 0)

\* The arms of get_data that read the section's bytes.
materialize(f, kind, data) ==
  CASE kind \in {"ProgBits", "ShLib", "OsSpecific", "ProcessorSpecific", "User"} ->
         IF data.status = "panic" THEN [data EXCEPT !.op = "get_data"]
         ELSE Payload("Undefined", <<<<data.lo, data.hi>>>>,
                      VariantElem("Undefined"), data.hi - data.lo)
    [] kind = "SymTab" -> array_data(f, data, "SymbolTable32", "SymbolTable64")
    [] kind = "DynSym" -> array_data(f, data, "DynSymbolTable32", "DynSymbolTable64")
    [] kind = "StrTab" ->
         IF data.status = "panic" THEN [data EXCEPT !.op = "get_data"]
         ELSE Payload("StrArray", <<<<data.lo, data.hi>>>>,
                      VariantElem("StrArray"), data.hi - data.lo)
    [] kind \in {"InitArray", "FiniArray", "PreInitArray"} ->
         array_data(f, data, "FnArray32", "FnArray64")
    [] kind = "Rela" -> array_data(f, data, "Rela32", "Rela64")
    [] kind = "Rel" -> array_data(f, data, "Rel32", "Rel64")
    [] kind = "Dynamic" -> array_data(f, data, "Dynamic32", "Dynamic64")
    [] kind = "Group" -> group_arm(data)
    [] kind = "SymTabShIndex" ->
         IF data.status = "panic" THEN [data EXCEPT !.op = "get_data"]
         ELSE read_array("SymTabShIndex", <<>>, data.lo, data.hi)
    [] kind = "Note" -> note_arm(f, data)
    [] kind = "Hash" -> hash_arm(data)

\* SectionHeader::get_data(elf_file)
get_data(f, b, ty, offset, size) ==
  The({ IF t.status = "panic" THEN PanicAt("get_data", t.msg, 0)
        ELSE IF t.kind \in {"Null", "NoBits"}
          THEN [Payload("Empty", <<>>, NoElem, 0) EXCEPT !.op = "get_data"]
        ELSE The({ materialize(f, t.kind, data) :
                   data \in {raw_data(f, b, ty, offset, size)} }) :
        t \in {get_type(ty)} })

\* NoteHeader::desc(input): desc_size bytes from the pointer
\* &input[0] + ((name_size + 3) & !0x3), with no check against input's
\* length; `neg` tells that the pointer offset, an isize, is negative.
desc(b, region, name_size, desc_size) ==
  The({ IF ~sum.ok
          THEN Panic("desc", "attempt to add with overflow")
        ELSE IF region.hi - region.lo = 0
          THEN Panic("desc", "index out of bounds")
        ELSE LET offset == WAnd(sum.val, <<252, 255, 255, 255>>)
             IN [op |-> "desc", status |-> "ok", off |-> offset,
                 neg |-> (b.usize_bytes = 4 /\ offset[4] >= 128),
                 len |-> desc_size] :
        sum \in {RustAdd(b, name_size, U32(3))} })

---------------------------------------------------------------------------
(* The file, its sections and the operations on them.                      *)

\* Length of the input buffer.
MaxLen == 72

\* 2^32 + v and 2^64 - v as u64 words (0 < v < 256).
Above32(v) == <<v, 0, 0, 0, 1, 0, 0, 0>>
Below64(v) == <<256 - v, 255, 255, 255, 255, 255, 255, 255>>
\* A header field of width P read through the getter: a Sh32 field is a u32
\* widened to u64.
Field(tag, w) == IF tag = "Sh32" THEN Cast(Cast(w, 4), 8) ELSE w

\* Section indices requested from the decoder.
Indices == {0, 1, SHN_LORESERVE - 1, SHN_LORESERVE, SHN_LORESERVE + 1, U16_MAX}
\* Raw type codes found in headers: the closed table with its gap, and one
\* code of each open range.
DataTypes == {U32(n) : n \in 0..18} \cup {SHT_LOOS, SHT_HIPROC, SHT_LOUSER}
RawTypes == {U32(0), U32(1), U32(8), U32(12), SHT_HIUSER}
NameTypes == {U32(0), U32(1), U32(3), U32(13), SHT_LOOS}
\* Offset and size fields found in headers.
Offsets == {U64(0), U64(4), Above32(4), Below64(4)}
Sizes == {U64(n) : n \in {0, 2, 4, 8, 12, 16, 24, MaxLen - 4, MaxLen}}
           \cup {Above32(8), Below64(4)}
\* name_size and desc_size fields found in note headers.
NameSizes == {U32(0), U32(1), U32(4), U32(5), <<0, 0, 0, 128>>, <<253, 255, 255, 255>>}
DescSizes == {U32(0), U32(4), U32(8), U32(MaxLen), <<255, 255, 255, 255>>}
\* The section-name string table: "", "ab", and an unterminated "c".
StrTab == <<0, 97, 98, 0, 99>>

Init ==
  /\ \E c \in Classes, o \in {U64(0), Below64(64)} :
       file = [class |-> c, len |-> MaxLen, sh_count |-> 2,
               sh_offset |-> Field(IF c = "ThirtyTwo" THEN "Sh32" ELSE "Sh64", o),
               sh_entry_size |-> HeaderSize(c), strtab |-> StrTab]
  /\ build \in Builds
  /\ next_index = 0
  /\ n_yielded = 0
  /\ hdr = NoHdr
  /\ arg = NoArg
  /\ result = NoResult
  /\ aborted = FALSE

\* Every operation is a function of the immutable input alone, so a
\* behaviour decodes a header, queries the header once, takes the descriptor
\* of a Note64 payload, and decodes again.
Decoded == result.op = "parse" /\ result.status = "ok"
Materialized(v) ==
  result.op = "get_data" /\ result.status = "ok" /\ result.variant = v
Region(range) == [lo |-> range[1], hi |-> range[2]]

\* ElfFile::section_header(index)
Parse(index) ==
  /\ ~aborted
  /\ arg' = [fn |-> "parse", index |-> index]
  /\ \E r \in {parse_section_header(file, build, index)} :
       /\ result' = r
       /\ aborted' = (r.status = "panic")
       /\ hdr' = IF r.status = "ok"
                  THEN [tag |-> r.tag, index |-> r.index, lo |-> r.lo, hi |-> r.hi]
                  ELSE hdr
  /\ UNCHANGED <<file, build, next_index, n_yielded>>

\* header.get_name(&file) on the header just decoded, whose bytes hold type
\* code ty and name offset name.
GetName ==
  /\ ~aborted
  /\ Decoded
  /\ \E ty \in NameTypes, name \in 0..(Len(file.strtab) + 1) :
       /\ arg' = [fn |-> "get_name", ty |-> ty, name |-> name]
       /\ result' = get_name(file, ty, name)
  /\ aborted' = (result'.status = "panic")
  /\ UNCHANGED <<file, build, next_index, n_yielded, hdr>>

\* header.raw_data(&file) on the header just decoded, whose bytes hold ty,
\* offset and size.
RawData ==
  /\ ~aborted
  /\ Decoded
  /\ \E ty \in RawTypes, o \in Offsets, z \in Sizes :
       /\ arg' = [fn |-> "raw_data", ty |-> ty, offset |-> Field(hdr.tag, o),
                  size |-> Field(hdr.tag, z)]
       /\ result' = raw_data(file, build, ty, Field(hdr.tag, o), Field(hdr.tag, z))
  /\ aborted' = (result'.status = "panic")
  /\ UNCHANGED <<file, build, next_index, n_yielded, hdr>>

\* header.get_data(&file)
GetData ==
  /\ ~aborted
  /\ Decoded
  /\ \E ty \in DataTypes, o \in Offsets, z \in Sizes :
     \E r \in {get_data(file, build, ty, Field(hdr.tag, o), Field(hdr.tag, z))} :
       /\ arg' = [fn |-> "get_data", ty |-> ty, offset |-> Field(hdr.tag, o),
                  size |-> Field(hdr.tag, z)]
       /\ result' = r
       /\ aborted' = (r.status = "panic")
  /\ UNCHANGED <<file, build, next_index, n_yielded, hdr>>

\* note_header.desc(rest) on a materialized Note64(note_header, rest).
Desc ==
  /\ ~aborted
  /\ Materialized("Note64")
  /\ \E ns \in NameSizes, ds \in DescSizes :
       /\ arg' = [fn |-> "desc", name_size |-> ns, desc_size |-> ds,
                  region |-> Region(result.ranges[2])]
       /\ result' = desc(build, Region(result.ranges[2]), ns, ds)
  /\ aborted' = (result'.status = "panic")
  /\ UNCHANGED <<file, build, next_index, n_yielded, hdr>>

Next ==
  \/ \E index \in Indices : Parse(index)
  \/ GetName
  \/ RawData
  \/ GetData
  \/ Desc
Spec == Init /\ [][Next]_vars

---------------------------------------------------------------------------
(* Properties of the decoder, the header view and the materializer.        *)

\* The kind the table of section 4.3 gives a raw code, "" for none.
TableKind(c) ==
  IF InTable(c) THEN TableKinds[ToNat(c) + 1]
  ELSE IF Small(c) THEN ""
  ELSE IF TopDigit(c) = 6 THEN "OsSpecific"
  ELSE IF TopDigit(c) = 7 THEN "ProcessorSpecific"
  ELSE IF TopDigit(c) >= 8 THEN "User"
  ELSE ""

\* The byte range [offset, offset + size) lies inside the input buffer
\* (exact arithmetic on the u64 fields).
InBuffer(offset, size) ==
  /\ Small(offset) /\ Small(size)
  /\ ToNat(offset) <= file.len /\ ToNat(size) <= file.len
  /\ ToNat(offset) + ToNat(size) <= file.len

\* C2: decoding an index >= 0xff00 fails on the reserved-index assertion
\* before the input buffer is indexed at all; for an index < 0xff00 the
\* reserved-index assertion does not fail.
Thm_C2 ==
  result.op = "parse" =>
    IF arg.index >= 65280
      THEN /\ result.status = "panic"
           /\ result.msg = "Attempt to get section for a reserved index"
           /\ result.indexed = 0
      ELSE ~(result.status = "panic"
             /\ result.msg = "Attempt to get section for a reserved index")

\* The first reserved index has been requested and refused.
Wit_C2 ==
  /\ result.op = "parse"
  /\ arg.index = 65280
  /\ result.status = "panic"
  /\ aborted

\* v is the NUL-terminated string at byte offset name of the string table.
IsStringAt(v, name) ==
  /\ name + Len(v) + 1 <= Len(file.strtab)
  /\ \A i \in 1..Len(v) : v[i] = file.strtab[name + i] /\ v[i] # 0
  /\ file.strtab[name + Len(v) + 1] = 0
\* A NUL-terminated string starts at byte offset name of the string table.
HasStringAt(name) == \E j \in (name + 1)..Len(file.strtab) : file.strtab[j] = 0

\* C4: get_name returns the error "Attempt to get name of null section" for
\* a Null header; for a header of any other valid type it returns Ok with
\* exactly the NUL-terminated string at the header's name offset in the
\* string table (the lookup aborting when no such string exists); with a
\* valid type code it never aborts on the type check.
Thm_C4 ==
  result.op = "get_name" =>
    LET k == TableKind(arg.ty) IN
    /\ k = "Null" =>
         /\ result.status = "err"
         /\ result.msg = "Attempt to get name of null section"
         /\ ~aborted
    /\ k \notin {"Null", ""} =>
         IF HasStringAt(arg.name)
           THEN /\ result.status = "ok"
                /\ IsStringAt(result.val, arg.name)
                /\ ~aborted
           ELSE /\ result.status = "panic"
                /\ result.msg \in {"slice index out of range", "No null byte in input"}
    /\ k # "" => ~(result.status = "panic" /\ result.msg = "Invalid sh type")

\* The name "ab" has been looked up for a ProgBits header.
Wit_C4 ==
  /\ result.op = "get_name"
  /\ arg.ty = <<1, 0, 0, 0>>
  /\ arg.name = 1
  /\ result.status = "ok"
  /\ result.val = <<97, 98>>

\* C5: raw_data on a Null header is rejected; on any other header, whatever
\* the offset and size fields, it either fails or returns the slice of the
\* buffer that starts at exactly offset and has exactly size bytes.
Orig_C5 ==
  result.op = "raw_data" =>
    /\ TableKind(arg.ty) = "Null" => result.status = "panic"
    /\ result.status = "ok" =>
         /\ U64(result.lo) = arg.offset
         /\ U64(result.hi - result.lo) = arg.size

\* The payload variants of a kind: for a 32-bit and for a 64-bit file.
TableVariants(k) ==
  CASE k \in {"Null", "NoBits"} -> <<"Empty", "Empty">>
    [] k \in {"ProgBits", "ShLib", "OsSpecific", "ProcessorSpecific", "User"} ->
         <<"Undefined", "Undefined">>
    [] k = "StrTab" -> <<"StrArray", "StrArray">>
    [] k = "SymTab" -> <<"SymbolTable32", "SymbolTable64">>
    [] k = "DynSym" -> <<"DynSymbolTable32", "DynSymbolTable64">>
    [] k \in {"InitArray", "FiniArray", "PreInitArray"} -> <<"FnArray32", "FnArray64">>
    [] k = "Rela" -> <<"Rela32", "Rela64">>
    [] k = "Rel" -> <<"Rel32", "Rel64">>
    [] k = "Dynamic" -> <<"Dynamic32", "Dynamic64">>
    [] k = "Group" -> <<"Group", "Group">>
    [] k = "SymTabShIndex" -> <<"SymTabShIndex", "SymTabShIndex">>
    [] k = "Note" -> <<"Note64", "Note64">>
    [] k = "Hash" -> <<"HashTable", "HashTable">>

\* C6: the dispatch of get_data is total and single-valued: every
\* classified type reaches an arm, a materialized payload has the one
\* variant the table gives its type (the 32 variant exactly in a 32-bit
\* file, the 64 variant exactly in a 64-bit file), and Null and NoBits give
\* Empty without indexing the buffer, whatever offset and size are.
Thm_C6 ==
  result.op = "get_data" =>
    LET k == TableKind(arg.ty) IN
    /\ k # "" => ~(result.status = "panic" /\ result.msg = "Invalid sh type")
    /\ (k # "" /\ result.status = "ok") =>
         result.variant =
           TableVariants(k)[IF file.class = "ThirtyTwo" THEN 1 ELSE 2]
    /\ k \in {"Null", "NoBits"} =>
         /\ result.status = "ok"
         /\ result.variant = "Empty"
         /\ result.ranges = <<>>
    /\ result.status \in {"ok", "panic"}

\* A symbol table of a 32-bit file has been materialized.
Wit_C6 ==
  /\ Materialized("SymbolTable32")
  /\ file.class = "ThirtyTwo"
  /\ arg.ty = <<2, 0, 0, 0>>
  /\ result.count = 1

\* C7 (original): get_data on a Note section of a 32-bit file reports a
\* recoverable "unsupported note width" error result and does not abort, so
\* that other sections can still be decoded.
Orig_C7 ==
  (result.op = "get_data" /\ arg.ty = <<7, 0, 0, 0>> /\ file.class = "ThirtyTwo") =>
    /\ result.status = "err"
    /\ ~aborted

\* C7 (amended): get_data on a Note section of a 32-bit file produces
\* neither a payload nor an error result: it aborts, with the
\* unimplemented!() panic "not yet implemented" whenever the section's byte
\* range lies inside the buffer, and no operation follows the abort.
Thm_C7 ==
  (result.op = "get_data" /\ arg.ty = <<7, 0, 0, 0>> /\ file.class = "ThirtyTwo") =>
    /\ result.status = "panic"
    /\ aborted
    /\ InBuffer(arg.offset, arg.size) => result.msg = "not yet implemented"
    /\ ~ENABLED Next

\* A Note section inside the buffer of a 32-bit file has been asked for.
Wit_C7 ==
  /\ result.op = "get_data"
  /\ arg.ty = <<7, 0, 0, 0>>
  /\ file.class = "ThirtyTwo"
  /\ InBuffer(arg.offset, arg.size)
  /\ result.msg = "not yet implemented"

\* C8: every byte range an operation exposes lies inside the file buffer
\* (the slice of NoteHeader::desc inside the trailing region it was given).
Orig_C8 ==
  /\ (result.op \in {"parse", "raw_data"} /\ result.status = "ok") =>
       /\ 0 <= result.lo /\ result.lo <= result.hi /\ result.hi <= file.len
  /\ (result.op = "get_data" /\ result.status = "ok") =>
       \A i \in 1..Len(result.ranges) :
         /\ 0 <= result.ranges[i][1]
         /\ result.ranges[i][1] <= result.ranges[i][2]
         /\ result.ranges[i][2] <= file.len
  /\ (result.op = "desc" /\ result.status = "ok") =>
       LET n == arg.region.hi - arg.region.lo IN
       /\ ~result.neg
       /\ Small(result.off) /\ Small(result.len)
       /\ ToNat(result.off) <= n /\ ToNat(result.len) <= n
       /\ ToNat(result.off) + ToNat(result.len) <= n

\* C10: the array get_data produces for a Dynamic section has elements of
\* the file's own word width (8-byte entries in a 32-bit file, 16-byte
\* entries in a 64-bit file), size / entry-size of them, and is accepted
\* whenever the section lies in the buffer and size is a multiple of that
\* entry size.
Orig_C10 ==
  (result.op = "get_data" /\ arg.ty = <<6, 0, 0, 0>>) =>
    LET p == IF file.class = "ThirtyTwo" THEN 4 ELSE 8 IN
    /\ result.status = "ok" =>
         /\ result.elem.pbytes = p
         /\ result.count * (2 * p) = ToNat(arg.size)
    /\ (InBuffer(arg.offset, arg.size) /\ ToNat(arg.size) % (2 * p) = 0) =>
         result.status = "ok"

---------------------------------------------------------------------------
(* Relocation entries: Rela<P> and Rel<P>.                                 *)

\* get_symbol_table_index with the 32-bit shift used at both widths.
get_symbol_table_index_shr8(kind, pbytes, info) ==
  Cast(ShrBytes(info, 1), 4)

\* Rela<P32>, Rela<P64>, Rel<P32>, Rel<P64>::get_symbol_table_index
get_symbol_table_index(kind, pbytes, info) ==
  CASE kind = "Rela" /\ pbytes = 4 -> ShrBytes(info, 1)
    [] kind = "Rela" /\ pbytes = 8 -> Cast(ShrBytes(info, 4), 4)
    [] kind = "Rel" /\ pbytes = 4 -> ShrBytes(info, 1)
    [] kind = "Rel" /\ pbytes = 8 -> Cast(ShrBytes(info, 4), 4)

\* Rela<P32>, Rela<P64>, Rel<P32>, Rel<P64>::get_type
reloc_get_type(kind, pbytes, info) ==
  CASE kind = "Rela" /\ pbytes = 4 -> Cast(info, 1)
    [] kind = "Rela" /\ pbytes = 8 ->
         Cast(WAnd(info, <<255, 255, 255, 255, 0, 0, 0, 0>>), 4)
    [] kind = "Rel" /\ pbytes = 4 -> Cast(info, 1)
    [] kind = "Rel" /\ pbytes = 8 ->
         Cast(WAnd(info, <<255, 255, 255, 255, 0, 0, 0, 0>>), 4)

\* info fields tried.
Infos64 == {<<b1, m2, m3, m4, b5, m6, m7, m8>> :
              b1 \in {0, 9, 255}, b5 \in {0, 5, 255},
              m2 \in {0, 255}, m3 \in {0, 255}, m4 \in {0, 255},
              m6 \in {0, 255}, m7 \in {0, 255}, m8 \in {0, 255}}
Infos32 == {<<b1, b2, m3, m4>> :
              b1 \in {0, 9, 255}, b2 \in {0, 5, 255},
              m3 \in {0, 255}, m4 \in {0, 255}}

Unset == <<>>

InitRel ==
  /\ \E k \in {"Rela", "Rel"} :
       \/ \E i \in Infos32 : arg = [fn |-> "reloc", kind |-> k, pbytes |-> 4, info |-> i]
       \/ \E i \in Infos64 : arg = [fn |-> "reloc", kind |-> k, pbytes |-> 8, info |-> i]
  /\ file = [class |-> "none"]
  /\ build = [usize_bytes |-> 8, overflow_checks |-> TRUE]
  /\ next_index = 0
  /\ n_yielded = 0
  /\ hdr = NoHdr
  /\ result = [op |-> "reloc", status |-> "ok", index |-> Unset, type |-> Unset]
  /\ aborted = FALSE

\* entry.get_symbol_table_index()
GetSymbolTableIndex ==
  /\ result.index = Unset
  /\ result' = [result EXCEPT
                  !.index = get_symbol_table_index(arg.kind, arg.pbytes, arg.info)]
  /\ UNCHANGED <<file, build, next_index, n_yielded, hdr, arg, aborted>>

\* entry.get_type()
GetRelType ==
  /\ result.type = Unset
  /\ result' = [result EXCEPT
                  !.type = reloc_get_type(arg.kind, arg.pbytes, arg.info)]
  /\ UNCHANGED <<file, build, next_index, n_yielded, hdr, arg, aborted>>

NextRel == GetSymbolTableIndex \/ GetRelType
SpecRel == InitRel /\ [][NextRel]_vars

\* C9: for Rel and Rela alike, in the 64-bit layout the symbol index is the
\* high 32 bits of info and the type its low 32 bits; in the 32-bit layout
\* the index is the high 24 bits and the type the low 8 bits; the index
\* shifted back and OR-ed with the type gives info again; info = (5 << 32) | 9
\* gives index 5 and type 9.
Thm_C9 ==
  LET info == arg.info IN
  /\ result.index # Unset =>
       /\ Len(result.index) = 4
       /\ result.index = (IF arg.pbytes = 8 THEN SubSeq(info, 5, 8)
                          ELSE SubSeq(info, 2, 4) \o <<0>>)
  /\ result.type # Unset =>
       result.type = (IF arg.pbytes = 8 THEN SubSeq(info, 1, 4) ELSE <<info[1]>>)
  /\ (result.index # Unset /\ result.type # Unset) =>
       WOr(ShlBytes(Cast(result.index, arg.pbytes),
                    IF arg.pbytes = 8 THEN 4 ELSE 1),
           Cast(result.type, arg.pbytes)) = info
  /\ (result.index # Unset /\ result.type # Unset
        /\ info = <<9, 0, 0, 0, 5, 0, 0, 0>>) =>
       result.index = <<5, 0, 0, 0>> /\ result.type = <<9, 0, 0, 0>>

\* Both accessors have been applied to a 64-bit Rela entry with
\* info = (5 << 32) | 9.
Wit_C9 ==
  /\ arg.kind = "Rela"
  /\ arg.info = <<9, 0, 0, 0, 5, 0, 0, 0>>
  /\ result.index = <<5, 0, 0, 0>>
  /\ result.type = <<9, 0, 0, 0>>

====
